---- MODULE Spec2Model ----
(***************************************************************************)
(* ws-serial-gateway: a TCP acceptor that upgrades each connection to a    *)
(* WebSocket, routes it by URL path to a serial device, and bridges bytes  *)
(* in both directions with two spawned tasks and a forwarding loop.        *)
(* Model of src/main.rs (accept_loop, handle_connection, main's select).   *)
(*                                                                         *)
(* Every byte of a stream is tagged with its position in that stream, so   *)
(* that a lost, duplicated, reordered or foreign byte is visible.          *)
(***************************************************************************)
EXTENDS Integers, Sequences, FiniteSets, TLC

\* ------------------------------------------------------------------ bounds
\* One client: bytes its device produces, bytes it sends in data frames, and
\* accept failures of the listener.
MaxDevBytes == 2
MaxClientBytes == 2
MaxFailures == 2
\* One client under fair scheduling: the same three budgets.
FairDevBytes == 1
FairClientBytes == 1
FairFailures == 2
\* Two clients: the same three budgets, each shared by both connections.
PairDevBytes == 1
PairClientBytes == 1
PairFailures == 1
\* Largest chunk one device read returns in the model.
MaxChunk == 2

\* ------------------------------------------------------- program constants
\* let mut buf = [0u8; 1024];
BufSize == 1024
\* tokio::time::sleep(Duration::from_millis(100))
BackoffMs == 100
\* http::Response::builder().status(404)
NotFound == 404
\* status of the response handed to the callback (101 Switching Protocols)
SwitchingProtocols == 101

\* Connection slots: handle_connection tasks the acceptor can spawn.
Conns == {1, 2}

\* First byte tag of each stream: streams of different connections are disjoint.
DevBase(c) == 10 * c
ClientBase(c) == 10 * c + 5

\* Option<T> is the set of at most one T.
NoneOpt == {}
Some(x) == {x}
Unwrap(o) == CHOOSE x \in o : TRUE

\* io::Result<usize> of a device read.
ReadErr == [tag |-> "Err", cnt |-> 0]
ReadOk(n) == [tag |-> "Ok", cnt |-> n]
NoResult == [tag |-> "none", cnt |-> 0]

\* No frame in hand.
NoFrame == [kind |-> "none", data |-> <<>>]

\* cfg.endpoints : HashMap<String, SerialConfig>; names are character sequences.
EndpointTable ==
    [n \in {<<"a">>, <<"b">>} |->
        IF n = <<"a">> THEN [port |-> "/dev/ttyA", baud_rate |-> 115200]
                       ELSE [port |-> "/dev/ttyB", baud_rate |-> 9600]]

\* Request paths the client of slot c may ask for (req.uri().path()): the two
\* clients aim at distinct endpoints, and each may ask for an unknown one.
PathsOf(c) ==
    IF c = 1 THEN { <<"/", "a">>, <<"/", "x">>, <<"/">> }
             ELSE { <<"/", "/", "b">>, <<"/", "b", "/">> }

\* str::trim_start_matches('/'): drop every leading separator.
RECURSIVE TrimStartMatches(_, _)
TrimStartMatches(s, ch) ==
    IF s # <<>> /\ Head(s) = ch THEN TrimStartMatches(Tail(s), ch) ELSE s

\* cfg.endpoints.get(name): Option<&SerialConfig>
EndpointGet(name) ==
    IF name \in DOMAIN EndpointTable THEN Some(EndpointTable[name]) ELSE NoneOpt

\* ------------------------------------------------------------------ helpers
Min(a, b) == IF a < b THEN a ELSE b

\* The n bytes of a stream that follow its first k bytes (tags base+k+1 ..).
Bytes(base, k, n) == [i \in 1..n |-> base + k + i]

IsPrefix(s, t) == Len(s) <= Len(t) /\ \A i \in 1..Len(s) : s[i] = t[i]

RECURSIVE Concat(_)
Concat(q) == IF q = <<>> THEN <<>> ELSE Head(q) \o Concat(Tail(q))

\* String::into_bytes: the string's own UTF-8 buffer, moved out unchanged.
IntoBytes(text) == text

\* -------------------------------------------------------------------- state
VARIABLES
    apc,          \* accept_loop: "accept" | "sleep" | "stopped"
    timer,        \* remaining backoff of the accept loop's sleep, in ms
    failures,     \* accept failures so far (environment budget)
    shutdown,     \* ctrl-c received: main returned, the runtime is shutting down
    hpc,          \* handle_connection position, per connection
    reqPath,      \* request path of the handshake
    response,     \* status of the response the handshake callback returned
    ws_endpoint,  \* endpoint name captured by the callback
    port_cfg,     \* Option<&SerialConfig> captured by the callback
    serial_port,  \* "none" | "open" | "closed": the connection's device handle
    strong,       \* strong count of Arc<Mutex<serial_port>>
    lock,         \* holder of the tokio Mutex: "free" | "reader" | "writer"
    senders,      \* live UnboundedSender handles of the ordering queue
    queue,        \* messages in the unbounded channel
    msg,          \* message the forwarding loop has dequeued and is sending
    rpc,          \* serial_reader task position
    read_result,  \* serial_reader: result of the last read, not yet matched
    buf,          \* serial_reader: buf[..n] of the last read
    wpc,          \* serial_writer task position
    wmsg,         \* serial_writer: frame received from ws_rx, not yet matched
    bytes,        \* serial_writer: payload being written
    devRead,      \* history: bytes the reader has read from the device
    delivered,    \* history: payload bytes the client has received
    wsIn,         \* history: payload bytes of the data frames received
    devWritten,   \* history: bytes that reached the device
    clients,      \* environment: connection slots that clients will use
    env           \* environment: total device bytes, client bytes, accept failures

acceptorVars == <<apc, timer, failures, shutdown>>
handlerVars  == <<hpc, reqPath, response, ws_endpoint, port_cfg, msg>>
sharedVars   == <<serial_port, strong, lock, senders, queue>>
readerVars   == <<rpc, read_result, buf>>
writerVars   == <<wpc, wmsg, bytes>>
historyVars  == <<devRead, delivered, wsIn, devWritten>>
envVars      == <<clients, env>>
vars == <<acceptorVars, handlerVars, sharedVars, readerVars, writerVars, historyVars, envVars>>

\* A role is cancelled at a yield once its JoinHandle was aborted
\* (handle_connection reached its end) or the runtime is being dropped.  An
\* aborted task that is being polled goes on until it yields: its next await
\* may resolve at once.
HandlerOver(c) == hpc[c] \in {"closed", "failed", "panicked", "cancelled"}
RoleStopped(pc) == pc \in {"err", "rxgone", "closed", "rxerr", "eof", "werr", "cancelled"}
RoleRunning(pc) == pc # "none" /\ ~RoleStopped(pc)
RoleCancelled(c) == hpc[c] = "closed" \/ shutdown

\* Dropping one Arc clone; the port closes with the last one.
DropArc(c) ==
    /\ strong' = [strong EXCEPT ![c] = @ - 1]
    /\ serial_port' = [serial_port EXCEPT ![c] = IF strong[c] = 1 THEN "closed" ELSE @]

InitState ==
    /\ apc = "accept" /\ timer = 0 /\ failures = 0 /\ shutdown = FALSE
    /\ hpc = [c \in Conns |-> "idle"]
    /\ reqPath = [c \in Conns |-> NoneOpt]
    /\ response = [c \in Conns |-> 0]
    /\ ws_endpoint = [c \in Conns |-> <<>>]
    /\ port_cfg = [c \in Conns |-> NoneOpt]
    /\ msg = [c \in Conns |-> NoneOpt]
    /\ serial_port = [c \in Conns |-> "none"]
    /\ strong = [c \in Conns |-> 0]
    /\ lock = [c \in Conns |-> "free"]
    /\ senders = [c \in Conns |-> 0]
    /\ queue = [c \in Conns |-> <<>>]
    /\ rpc = [c \in Conns |-> "none"]
    /\ read_result = [c \in Conns |-> NoResult]
    /\ buf = [c \in Conns |-> <<>>]
    /\ wpc = [c \in Conns |-> "none"]
    /\ wmsg = [c \in Conns |-> NoFrame]
    /\ bytes = [c \in Conns |-> <<>>]
    /\ devRead = [c \in Conns |-> <<>>]
    /\ delivered = [c \in Conns |-> <<>>]
    /\ wsIn = [c \in Conns |-> <<>>]
    /\ devWritten = [c \in Conns |-> <<>>]

\* One client connects in Init; TwoInit lets two clients connect.
Init ==
    /\ InitState
    /\ clients = {1}
    /\ env = [dev |-> MaxDevBytes, client |-> MaxClientBytes, fail |-> MaxFailures]
FairInit ==
    /\ InitState
    /\ clients = {1}
    /\ env = [dev |-> FairDevBytes, client |-> FairClientBytes, fail |-> FairFailures]
TwoInit ==
    /\ InitState
    /\ clients = Conns
    /\ env = [dev |-> PairDevBytes, client |-> PairClientBytes, fail |-> PairFailures]

RECURSIVE TotalLen(_, _)
TotalLen(f, S) ==
    IF S = {} THEN 0
    ELSE LET c == CHOOSE x \in S : TRUE IN Len(f[c]) + TotalLen(f, S \ {c})

\* What the environment may still produce.
DevLeft == env.dev - TotalLen(devRead, Conns)
ClientLeft == env.client - TotalLen(wsIn, Conns)

\* ------------------------------------------------------------- accept_loop
\* listener.accept() returns Ok: spawn handle_connection for the stream.
AcceptOk(c) ==
    /\ apc = "accept" /\ ~shutdown
    /\ c \in clients /\ hpc[c] = "idle"
    /\ \A d \in clients : d < c => hpc[d] # "idle"
    /\ hpc' = [hpc EXCEPT ![c] = "handshake"]
    /\ UNCHANGED <<acceptorVars, reqPath, response, ws_endpoint, port_cfg, msg,
                   sharedVars, readerVars, writerVars, historyVars, envVars>>

\* Mutant of AcceptErr: the loop goes round at once.
AcceptErrNoBackoff ==
    /\ apc = "accept" /\ ~shutdown
    /\ failures < env.fail
    /\ failures' = failures + 1
    /\ UNCHANGED <<apc, timer, shutdown, handlerVars, sharedVars, readerVars,
                   writerVars, historyVars, envVars>>

\* listener.accept() returns Err: log, then sleep 100 ms.
AcceptErr ==
    /\ apc = "accept" /\ ~shutdown
    /\ failures < env.fail
    /\ failures' = failures + 1
    /\ apc' = "sleep"
    /\ timer' = BackoffMs
    /\ UNCHANGED <<shutdown, handlerVars, sharedVars, readerVars, writerVars,
                   historyVars, envVars>>

\* The sleep elapses and the loop goes round.
SleepDone ==
    /\ apc = "sleep" /\ ~shutdown
    /\ apc' = "accept"
    /\ timer' = 0
    /\ UNCHANGED <<failures, shutdown, handlerVars, sharedVars, readerVars,
                   writerVars, historyVars, envVars>>

\* The awaits a task can be suspended in.
HandlerAwaits == {"handshake", "respond", "open", "recv", "send"}
ReaderAwaits == {"lock"}
WriterAwaits == {"next", "lock"}

\* Arc clones and senders that go when the suspended tasks of c are dropped.
ArcsOfSuspended(c) ==
    (IF hpc[c] \in {"recv", "send"} THEN 1 ELSE 0)
    + (IF rpc[c] \in ReaderAwaits THEN 1 ELSE 0)
    + (IF wpc[c] \in WriterAwaits THEN 1 ELSE 0)
SendersOfSuspended(c) ==
    (IF hpc[c] \in {"recv", "send"} THEN 1 ELSE 0)
    + (IF rpc[c] \in ReaderAwaits THEN 1 ELSE 0)

\* main: ctrl-c wins the select!, accept_loop is dropped, main returns and the
\* runtime is dropped: the suspended tasks are dropped with it, and a task that
\* is being polled is dropped at its next yield.
CtrlC ==
    /\ ~shutdown
    /\ shutdown' = TRUE
    /\ apc' = "stopped"
    /\ timer' = 0
    /\ hpc' = [c \in Conns |-> IF hpc[c] \in HandlerAwaits THEN "cancelled" ELSE hpc[c]]
    /\ rpc' = [c \in Conns |-> IF rpc[c] \in ReaderAwaits THEN "cancelled" ELSE rpc[c]]
    /\ wpc' = [c \in Conns |-> IF wpc[c] \in WriterAwaits THEN "cancelled" ELSE wpc[c]]
    /\ strong' = [c \in Conns |-> strong[c] - ArcsOfSuspended(c)]
    /\ serial_port' = [c \in Conns |->
            IF strong[c] > 0 /\ strong[c] = ArcsOfSuspended(c)
            THEN "closed" ELSE serial_port[c]]
    /\ senders' = [c \in Conns |-> senders[c] - SendersOfSuspended(c)]
    /\ queue' = [c \in Conns |-> IF hpc[c] \in HandlerAwaits THEN <<>> ELSE queue[c]]
    /\ msg' = [c \in Conns |-> IF hpc[c] \in HandlerAwaits THEN NoneOpt ELSE msg[c]]
    /\ bytes' = [c \in Conns |-> IF wpc[c] \in WriterAwaits THEN <<>> ELSE bytes[c]]
    /\ UNCHANGED <<failures, reqPath, response, ws_endpoint, port_cfg, lock,
                   read_result, buf, wmsg, historyVars, envVars>>

\* -------------------------------------------------------- handle_connection
\* accept_hdr_async fails before the callback runs (no valid upgrade request).
HandshakeErr(c) ==
    /\ hpc[c] = "handshake" /\ ~shutdown
    /\ hpc' = [hpc EXCEPT ![c] = "failed"]
    /\ UNCHANGED <<acceptorVars, reqPath, response, ws_endpoint, port_cfg, msg,
                   sharedVars, readerVars, writerVars, historyVars, envVars>>

\* The callback cb: record the endpoint name and its configuration, answer 404
\* when the name is unknown and pass the upgrade response through otherwise.
Callback(c, path) ==
    /\ hpc[c] = "handshake" /\ ~shutdown
    /\ reqPath' = [reqPath EXCEPT ![c] = Some(path)]
    /\ ws_endpoint' = [ws_endpoint EXCEPT ![c] = TrimStartMatches(path, "/")]
    /\ port_cfg' = [port_cfg EXCEPT ![c] = EndpointGet(TrimStartMatches(path, "/"))]
    /\ response' = [response EXCEPT ![c] =
            IF EndpointGet(TrimStartMatches(path, "/")) = NoneOpt
            THEN NotFound ELSE SwitchingProtocols]
    /\ hpc' = [hpc EXCEPT ![c] = "respond"]
    /\ UNCHANGED <<acceptorVars, msg, sharedVars, readerVars, writerVars,
                   historyVars, envVars>>

\* accept_hdr_async completes: the response was written (Ok, whatever its
\* status, because cb returned Ok) or the transport failed (Err, `?` returns).
HandshakeDone(c, ok) ==
    /\ hpc[c] = "respond" /\ ~shutdown
    /\ hpc' = [hpc EXCEPT ![c] = IF ok THEN "lookup" ELSE "failed"]
    /\ UNCHANGED <<acceptorVars, reqPath, response, ws_endpoint, port_cfg, msg,
                   sharedVars, readerVars, writerVars, historyVars, envVars>>

\* Mutant of Lookup: a missing configuration is replaced by a default instead
\* of stopping the attempt.
LookupOrDefault(c) ==
    /\ hpc[c] = "lookup"
    /\ hpc' = [hpc EXCEPT ![c] = "open"]
    /\ UNCHANGED <<acceptorVars, reqPath, response, ws_endpoint, port_cfg, msg,
                   sharedVars, readerVars, writerVars, historyVars, envVars>>

\* port_cfg.unwrap().clone(): panics on None (the task ends), otherwise the open
\* is handed to spawn_blocking and awaited.
Lookup(c) ==
    /\ hpc[c] = "lookup"
    /\ hpc' = [hpc EXCEPT ![c] = IF port_cfg[c] = NoneOpt THEN "panicked" ELSE "open"]
    /\ UNCHANGED <<acceptorVars, reqPath, response, ws_endpoint, port_cfg, msg,
                   sharedVars, readerVars, writerVars, historyVars, envVars>>

\* Mutant of OpenDone: the result of the open is not looked at.
OpenDoneUnchecked(c, ok) ==
    /\ hpc[c] = "open" /\ ~shutdown
    /\ hpc' = [hpc EXCEPT ![c] = "spawn_reader"]
    /\ serial_port' = [serial_port EXCEPT ![c] = IF ok THEN "open" ELSE @]
    /\ strong' = [strong EXCEPT ![c] = 1]
    /\ senders' = [senders EXCEPT ![c] = 1]
    /\ UNCHANGED <<acceptorVars, reqPath, response, ws_endpoint, port_cfg, msg,
                   lock, queue, readerVars, writerVars, historyVars, envVars>>

\* The blocking open returns and the await resumes: Err propagates through `??`;
\* Ok continues to the split, the channel and the Arc<Mutex<_>> (lines 147-159).
OpenDone(c, ok) ==
    /\ hpc[c] = "open" /\ ~shutdown
    /\ hpc' = [hpc EXCEPT ![c] = IF ok THEN "spawn_reader" ELSE "failed"]
    /\ serial_port' = [serial_port EXCEPT ![c] = IF ok THEN "open" ELSE @]
    /\ strong' = [strong EXCEPT ![c] = IF ok THEN 1 ELSE @]
    /\ senders' = [senders EXCEPT ![c] = IF ok THEN 1 ELSE @]
    /\ UNCHANGED <<acceptorVars, reqPath, response, ws_endpoint, port_cfg, msg,
                   lock, queue, readerVars, writerVars, historyVars, envVars>>

\* Mutant of SpawnReader: the reader is given the original sender, not a clone.
SpawnReaderMovesSender(c) ==
    /\ hpc[c] = "spawn_reader"
    /\ hpc' = [hpc EXCEPT ![c] = "spawn_writer"]
    /\ rpc' = [rpc EXCEPT ![c] = "lock"]
    /\ strong' = [strong EXCEPT ![c] = @ + 1]
    /\ UNCHANGED <<acceptorVars, reqPath, response, ws_endpoint, port_cfg, msg,
                   serial_port, lock, senders, queue, read_result, buf, writerVars,
                   historyVars, envVars>>

\* tokio::spawn of serial_reader with its Arc clone and its sender clone.
SpawnReader(c) ==
    /\ hpc[c] = "spawn_reader"
    /\ hpc' = [hpc EXCEPT ![c] = "spawn_writer"]
    /\ rpc' = [rpc EXCEPT ![c] = "lock"]
    /\ strong' = [strong EXCEPT ![c] = @ + 1]
    /\ senders' = [senders EXCEPT ![c] = @ + 1]
    /\ UNCHANGED <<acceptorVars, reqPath, response, ws_endpoint, port_cfg, msg,
                   serial_port, lock, queue, read_result, buf, writerVars,
                   historyVars, envVars>>

\* tokio::spawn of serial_writer with its Arc clone and ws_rx.
SpawnWriter(c) ==
    /\ hpc[c] = "spawn_writer"
    /\ hpc' = [hpc EXCEPT ![c] = "recv"]
    /\ wpc' = [wpc EXCEPT ![c] = "next"]
    /\ strong' = [strong EXCEPT ![c] = @ + 1]
    /\ UNCHANGED <<acceptorVars, reqPath, response, ws_endpoint, port_cfg, msg,
                   serial_port, lock, senders, queue, readerVars, wmsg, bytes,
                   historyVars, envVars>>

\* Mutant of HandlerRecv: the newest message is taken first.
HandlerRecvNewest(c) ==
    /\ hpc[c] = "recv" /\ ~shutdown
    /\ queue[c] # <<>> \/ senders[c] = 0
    /\ IF queue[c] # <<>>
       THEN /\ msg' = [msg EXCEPT ![c] = Some(queue[c][Len(queue[c])])]
            /\ queue' = [queue EXCEPT ![c] = SubSeq(@, 1, Len(@) - 1)]
            /\ hpc' = [hpc EXCEPT ![c] = "send"]
       ELSE /\ hpc' = [hpc EXCEPT ![c] = "drain"]
            /\ UNCHANGED <<msg, queue>>
    /\ UNCHANGED <<acceptorVars, reqPath, response, ws_endpoint, port_cfg,
                   serial_port, strong, lock, senders, readerVars, writerVars,
                   historyVars, envVars>>

\* serial_to_ws_rx.recv().await: Some(msg) while the queue holds a message, None
\* once it is empty and no sender is left.
HandlerRecv(c) ==
    /\ hpc[c] = "recv" /\ ~shutdown
    /\ queue[c] # <<>> \/ senders[c] = 0
    /\ IF queue[c] # <<>>
       THEN /\ msg' = [msg EXCEPT ![c] = Some(Head(queue[c]))]
            /\ queue' = [queue EXCEPT ![c] = Tail(@)]
            /\ hpc' = [hpc EXCEPT ![c] = "send"]
       ELSE /\ hpc' = [hpc EXCEPT ![c] = "drain"]
            /\ UNCHANGED <<msg, queue>>
    /\ UNCHANGED <<acceptorVars, reqPath, response, ws_endpoint, port_cfg,
                   serial_port, strong, lock, senders, readerVars, writerVars,
                   historyVars, envVars>>

\* Mutant of HandlerSend: a failed send goes back to opening the device.
HandlerSendReopens(c, ok) ==
    /\ hpc[c] = "send" /\ ~shutdown
    /\ hpc' = [hpc EXCEPT ![c] = IF ok THEN "recv" ELSE "open"]
    /\ delivered' = [delivered EXCEPT ![c] = IF ok THEN @ \o Unwrap(msg[c]) ELSE @]
    /\ msg' = [msg EXCEPT ![c] = NoneOpt]
    /\ UNCHANGED <<acceptorVars, reqPath, response, ws_endpoint, port_cfg,
                   sharedVars, readerVars, writerVars, devRead, wsIn, devWritten,
                   envVars>>

\* ws_tx.send(msg).await: Ok delivers the payload, Err breaks the loop.
HandlerSend(c, ok) ==
    /\ hpc[c] = "send" /\ ~shutdown
    /\ hpc' = [hpc EXCEPT ![c] = IF ok THEN "recv" ELSE "drain"]
    /\ delivered' = [delivered EXCEPT ![c] = IF ok THEN @ \o Unwrap(msg[c]) ELSE @]
    /\ msg' = [msg EXCEPT ![c] = NoneOpt]
    /\ UNCHANGED <<acceptorVars, reqPath, response, ws_endpoint, port_cfg,
                   sharedVars, readerVars, writerVars, devRead, wsIn, devWritten,
                   envVars>>

\* serial_reader.abort(); serial_writer.abort(); return Ok(()): the receiver,
\* the original sender, ws_tx and the handler's Arc are dropped.
HandlerAbort(c) ==
    /\ hpc[c] = "drain"
    /\ hpc' = [hpc EXCEPT ![c] = "closed"]
    /\ queue' = [queue EXCEPT ![c] = <<>>]
    /\ senders' = [senders EXCEPT ![c] = @ - 1]
    /\ DropArc(c)
    /\ UNCHANGED <<acceptorVars, reqPath, response, ws_endpoint, port_cfg, msg,
                   lock, readerVars, writerVars, historyVars, envVars>>

\* Runtime shutdown drops handle_connection at the await it has reached.
HandlerCancel(c) ==
    /\ shutdown
    /\ hpc[c] \in HandlerAwaits
    /\ hpc' = [hpc EXCEPT ![c] = "cancelled"]
    /\ queue' = [queue EXCEPT ![c] = <<>>]
    /\ msg' = [msg EXCEPT ![c] = NoneOpt]
    /\ senders' = [senders EXCEPT ![c] = IF @ > 0 THEN @ - 1 ELSE @]
    /\ IF strong[c] > 0 THEN DropArc(c) ELSE UNCHANGED <<strong, serial_port>>
    /\ UNCHANGED <<acceptorVars, reqPath, response, ws_endpoint, port_cfg,
                   lock, readerVars, writerVars, historyVars, envVars>>

\* ------------------------------------------------------- serial_reader task
\* The task ends: its Arc clone and its sender clone are dropped.
ReaderEnds(c, how) ==
    /\ rpc' = [rpc EXCEPT ![c] = how]
    /\ senders' = [senders EXCEPT ![c] = @ - 1]
    /\ DropArc(c)

\* Mutant of ReaderLock: one process-wide lock serves every connection.
ReaderLockProcessWide(c) ==
    /\ rpc[c] = "lock" /\ ~shutdown
    /\ \A d \in Conns : lock[d] = "free"
    /\ lock' = [d \in Conns |-> "reader"]
    /\ rpc' = [rpc EXCEPT ![c] = "read"]
    /\ UNCHANGED <<acceptorVars, handlerVars, serial_port, strong, senders, queue,
                   read_result, buf, writerVars, historyVars, envVars>>

\* Mutant of ReaderLock: the guard is taken whoever holds the lock.
ReaderLockUnguarded(c) ==
    /\ rpc[c] = "lock" /\ ~shutdown
    /\ lock' = [lock EXCEPT ![c] = "reader"]
    /\ rpc' = [rpc EXCEPT ![c] = "read"]
    /\ UNCHANGED <<acceptorVars, handlerVars, serial_port, strong, senders, queue,
                   read_result, buf, writerVars, historyVars, envVars>>

\* readable_serial_port.lock().await resolves: the reader holds the guard.
ReaderLock(c) ==
    /\ rpc[c] = "lock" /\ ~shutdown
    /\ lock[c] = "free"
    /\ lock' = [lock EXCEPT ![c] = "reader"]
    /\ rpc' = [rpc EXCEPT ![c] = "read"]
    /\ UNCHANGED <<acceptorVars, handlerVars, serial_port, strong, senders, queue,
                   read_result, buf, writerVars, historyVars, envVars>>

\* Mutant of ReaderRead: the guard outlives the read and is still held when the
\* chunk is pushed.
ReaderReadKeepsGuard(c, r) ==
    /\ rpc[c] = "read"
    /\ lock[c] = "reader"
    /\ r.tag = "Ok" =>
          r.cnt <= Min(Min(BufSize, MaxChunk), DevLeft)
    /\ read_result' = [read_result EXCEPT ![c] = r]
    /\ buf' = [buf EXCEPT ![c] =
            IF r.tag = "Err" THEN @ ELSE Bytes(DevBase(c), Len(devRead[c]), r.cnt)]
    /\ devRead' = [devRead EXCEPT ![c] =
            IF r.tag = "Err" THEN @ ELSE @ \o Bytes(DevBase(c), Len(devRead[c]), r.cnt)]
    /\ rpc' = [rpc EXCEPT ![c] = "match"]
    /\ UNCHANGED <<acceptorVars, handlerVars, sharedVars,
                   writerVars, delivered, wsIn, devWritten, envVars>>

\* ser.read(&mut buf) returns and the guard is dropped: Err, Ok(0), or Ok(n)
\* with the device's next n bytes in buf[..n].
ReaderRead(c, r) ==
    /\ rpc[c] = "read"
    /\ lock[c] = "reader"
    /\ r.tag = "Ok" =>
          r.cnt <= Min(Min(BufSize, MaxChunk), DevLeft)
    /\ read_result' = [read_result EXCEPT ![c] = r]
    /\ buf' = [buf EXCEPT ![c] =
            IF r.tag = "Err" THEN @ ELSE Bytes(DevBase(c), Len(devRead[c]), r.cnt)]
    /\ devRead' = [devRead EXCEPT ![c] =
            IF r.tag = "Err" THEN @ ELSE @ \o Bytes(DevBase(c), Len(devRead[c]), r.cnt)]
    /\ lock' = [lock EXCEPT ![c] = "free"]
    /\ rpc' = [rpc EXCEPT ![c] = "match"]
    /\ UNCHANGED <<acceptorVars, handlerVars, serial_port, strong, senders, queue,
                   writerVars, delivered, wsIn, devWritten, envVars>>

\* Mutant of ReaderMatch: a zero-length read is taken for end of stream.
ReaderMatchZeroIsEof(c) ==
    /\ rpc[c] = "match"
    /\ read_result' = [read_result EXCEPT ![c] = NoResult]
    /\ buf' = [buf EXCEPT ![c] = <<>>]
    /\ IF read_result[c].tag = "Err" \/ read_result[c].cnt = 0
       THEN /\ ReaderEnds(c, "err")
            /\ UNCHANGED queue
       ELSE IF HandlerOver(c)
       THEN /\ ReaderEnds(c, "rxgone")
            /\ UNCHANGED queue
       ELSE /\ queue' = [queue EXCEPT ![c] = Append(@, buf[c])]
            /\ rpc' = [rpc EXCEPT ![c] = "lock"]
            /\ UNCHANGED <<senders, strong, serial_port>>
    /\ UNCHANGED <<acceptorVars, handlerVars, lock, writerVars, historyVars, envVars>>

\* Mutant of ReaderMatch: the result of tx.send is not looked at.
ReaderMatchIgnoresSendError(c) ==
    /\ rpc[c] = "match"
    /\ read_result' = [read_result EXCEPT ![c] = NoResult]
    /\ buf' = [buf EXCEPT ![c] = <<>>]
    /\ IF read_result[c].tag = "Err"
       THEN /\ ReaderEnds(c, "err")
            /\ UNCHANGED queue
       ELSE IF read_result[c].cnt = 0 \/ HandlerOver(c)
       THEN /\ rpc' = [rpc EXCEPT ![c] = "lock"]
            /\ UNCHANGED <<queue, senders, strong, serial_port>>
       ELSE /\ queue' = [queue EXCEPT ![c] = Append(@, buf[c])]
            /\ rpc' = [rpc EXCEPT ![c] = "lock"]
            /\ UNCHANGED <<senders, strong, serial_port>>
    /\ UNCHANGED <<acceptorVars, handlerVars, lock, writerVars, historyVars, envVars>>

\* match read_result: Err breaks; n == 0 continues; otherwise tx.send pushes
\* buf[..n], and breaks when the receiver has been dropped.
ReaderMatch(c) ==
    /\ rpc[c] = "match"
    /\ read_result' = [read_result EXCEPT ![c] = NoResult]
    /\ buf' = [buf EXCEPT ![c] = <<>>]
    /\ IF read_result[c].tag = "Err"
       THEN /\ ReaderEnds(c, "err")
            /\ UNCHANGED queue
       ELSE IF read_result[c].cnt = 0
       THEN /\ rpc' = [rpc EXCEPT ![c] = "lock"]
            /\ UNCHANGED <<queue, senders, strong, serial_port>>
       ELSE IF HandlerOver(c)
       THEN /\ ReaderEnds(c, "rxgone")
            /\ UNCHANGED queue
       ELSE /\ queue' = [queue EXCEPT ![c] = Append(@, buf[c])]
            /\ rpc' = [rpc EXCEPT ![c] = "lock"]
            /\ UNCHANGED <<senders, strong, serial_port>>
    /\ UNCHANGED <<acceptorVars, handlerVars, lock, writerVars, historyVars, envVars>>

\* The aborted (or shut down) task is dropped at the one await it has.
ReaderCancel(c) ==
    /\ rpc[c] \in ReaderAwaits
    /\ RoleCancelled(c)
    /\ ReaderEnds(c, "cancelled")
    /\ UNCHANGED <<acceptorVars, handlerVars, lock, queue, read_result, buf,
                   writerVars, historyVars, envVars>>

\* ------------------------------------------------------- serial_writer task
WriterEnds(c, how) ==
    /\ wpc' = [wpc EXCEPT ![c] = how]
    /\ DropArc(c)

DataKinds == {"Binary", "Text"}
FrameKinds == DataKinds \cup {"Close", "Ping", "Pong", "Err"}

\* ws_rx.next().await yields Some(frame): a data frame carries the client's
\* next len bytes.
WriterNext(c, kind, len) ==
    /\ wpc[c] = "next" /\ ~shutdown
    /\ kind \in FrameKinds
    /\ len \in 0 .. ClientLeft
    /\ kind \notin DataKinds => len = 0
    /\ wmsg' = [wmsg EXCEPT ![c] =
            [kind |-> kind, data |-> Bytes(ClientBase(c), Len(wsIn[c]), len)]]
    /\ wsIn' = [wsIn EXCEPT ![c] = @ \o Bytes(ClientBase(c), Len(wsIn[c]), len)]
    /\ wpc' = [wpc EXCEPT ![c] = "match"]
    /\ UNCHANGED <<acceptorVars, handlerVars, sharedVars, readerVars, bytes,
                   devRead, delivered, devWritten, envVars>>

\* ws_rx.next().await yields None: the while-let loop ends.
WriterEof(c) ==
    /\ wpc[c] = "next" /\ ~shutdown
    /\ WriterEnds(c, "eof")
    /\ UNCHANGED <<acceptorVars, handlerVars, lock, senders, queue, readerVars,
                   wmsg, bytes, historyVars, envVars>>

\* Mutant of WriterMatch: only binary frames are written, text is ignored.
WriterMatchBinaryOnly(c) ==
    /\ wpc[c] = "match"
    /\ wmsg' = [wmsg EXCEPT ![c] = NoFrame]
    /\ CASE wmsg[c].kind = "Binary" ->
              /\ bytes' = [bytes EXCEPT ![c] = wmsg[c].data]
              /\ wpc' = [wpc EXCEPT ![c] = "lock"]
              /\ UNCHANGED <<strong, serial_port>>
         [] wmsg[c].kind = "Close" ->
              /\ WriterEnds(c, "closed")
              /\ UNCHANGED bytes
         [] wmsg[c].kind = "Err" ->
              /\ WriterEnds(c, "rxerr")
              /\ UNCHANGED bytes
         [] OTHER ->
              /\ wpc' = [wpc EXCEPT ![c] = "next"]
              /\ UNCHANGED <<bytes, strong, serial_port>>
    /\ UNCHANGED <<acceptorVars, handlerVars, lock, senders, queue, readerVars,
                   historyVars, envVars>>

\* Mutant of WriterMatch: any control frame ends the role as Close does.
WriterMatchControlEnds(c) ==
    /\ wpc[c] = "match"
    /\ wmsg' = [wmsg EXCEPT ![c] = NoFrame]
    /\ CASE wmsg[c].kind = "Binary" ->
              /\ bytes' = [bytes EXCEPT ![c] = wmsg[c].data]
              /\ wpc' = [wpc EXCEPT ![c] = "lock"]
              /\ UNCHANGED <<strong, serial_port>>
         [] wmsg[c].kind = "Text" ->
              /\ bytes' = [bytes EXCEPT ![c] = IntoBytes(wmsg[c].data)]
              /\ wpc' = [wpc EXCEPT ![c] = "lock"]
              /\ UNCHANGED <<strong, serial_port>>
         [] wmsg[c].kind = "Err" ->
              /\ WriterEnds(c, "rxerr")
              /\ UNCHANGED bytes
         [] OTHER ->
              /\ WriterEnds(c, "closed")
              /\ UNCHANGED bytes
    /\ UNCHANGED <<acceptorVars, handlerVars, lock, senders, queue, readerVars,
                   historyVars, envVars>>

\* match msg: Binary and Text go on to the write, Close and Err break,
\* everything else is ignored.
WriterMatch(c) ==
    /\ wpc[c] = "match"
    /\ wmsg' = [wmsg EXCEPT ![c] = NoFrame]
    /\ CASE wmsg[c].kind = "Binary" ->
              /\ bytes' = [bytes EXCEPT ![c] = wmsg[c].data]
              /\ wpc' = [wpc EXCEPT ![c] = "lock"]
              /\ UNCHANGED <<strong, serial_port>>
         [] wmsg[c].kind = "Text" ->
              /\ bytes' = [bytes EXCEPT ![c] = IntoBytes(wmsg[c].data)]
              /\ wpc' = [wpc EXCEPT ![c] = "lock"]
              /\ UNCHANGED <<strong, serial_port>>
         [] wmsg[c].kind = "Close" ->
              /\ WriterEnds(c, "closed")
              /\ UNCHANGED bytes
         [] wmsg[c].kind = "Err" ->
              /\ WriterEnds(c, "rxerr")
              /\ UNCHANGED bytes
         [] OTHER ->
              /\ wpc' = [wpc EXCEPT ![c] = "next"]
              /\ UNCHANGED <<bytes, strong, serial_port>>
    /\ UNCHANGED <<acceptorVars, handlerVars, lock, senders, queue, readerVars,
                   historyVars, envVars>>

\* writable_serial_port.lock().await resolves: the writer holds the guard.
WriterLock(c) ==
    /\ wpc[c] = "lock" /\ ~shutdown
    /\ lock[c] = "free"
    /\ lock' = [lock EXCEPT ![c] = "writer"]
    /\ wpc' = [wpc EXCEPT ![c] = "write"]
    /\ UNCHANGED <<acceptorVars, handlerVars, serial_port, strong, senders, queue,
                   readerVars, wmsg, bytes, historyVars, envVars>>

\* ser.write_all(&data) returns and the guard is dropped: Ok after every byte,
\* or Err after the first k bytes (k < len); an error breaks the loop.
WriterWrite(c, ok, k) ==
    /\ wpc[c] = "write"
    /\ lock[c] = "writer"
    /\ IF ok THEN k = Len(bytes[c]) ELSE k \in 0 .. (Len(bytes[c]) - 1)
    /\ devWritten' = [devWritten EXCEPT ![c] = @ \o SubSeq(bytes[c], 1, k)]
    /\ lock' = [lock EXCEPT ![c] = "free"]
    /\ bytes' = [bytes EXCEPT ![c] = <<>>]
    /\ IF ok
       THEN /\ wpc' = [wpc EXCEPT ![c] = "next"]
            /\ UNCHANGED <<strong, serial_port>>
       ELSE WriterEnds(c, "werr")
    /\ UNCHANGED <<acceptorVars, handlerVars, senders, queue, readerVars, wmsg,
                   devRead, delivered, wsIn, envVars>>

\* Mutant of WriterCancel: the abort reaches the writer only at the lock, not
\* while it waits for the client's next frame.
WriterCancelAtLockOnly(c) ==
    /\ wpc[c] = "lock"
    /\ RoleCancelled(c)
    /\ WriterEnds(c, "cancelled")
    /\ bytes' = [bytes EXCEPT ![c] = <<>>]
    /\ UNCHANGED <<acceptorVars, handlerVars, lock, senders, queue, readerVars,
                   wmsg, historyVars, envVars>>

\* The aborted (or shut down) task is dropped at one of its two awaits.
WriterCancel(c) ==
    /\ wpc[c] \in WriterAwaits
    /\ RoleCancelled(c)
    /\ WriterEnds(c, "cancelled")
    /\ bytes' = [bytes EXCEPT ![c] = <<>>]
    /\ UNCHANGED <<acceptorVars, handlerVars, lock, senders, queue, readerVars,
                   wmsg, historyVars, envVars>>

\* ------------------------------------------------------------ specification
HandlerStep(c) ==
    \/ Lookup(c) \/ SpawnReader(c) \/ SpawnWriter(c)
    \/ HandlerRecv(c) \/ HandlerAbort(c) \/ HandlerCancel(c)
    \/ \E ok \in BOOLEAN : HandshakeDone(c, ok) \/ OpenDone(c, ok) \/ HandlerSend(c, ok)

ReaderStep(c) ==
    \/ ReaderLock(c) \/ ReaderMatch(c) \/ ReaderCancel(c)
    \/ \E r \in {ReadErr} \cup {ReadOk(n) : n \in 0 .. MaxChunk} : ReaderRead(c, r)

WriterStep(c) ==
    \/ WriterMatch(c) \/ WriterLock(c) \/ WriterCancel(c)
    \/ \E ok \in BOOLEAN, k \in 0 .. env.client : WriterWrite(c, ok, k)

ClientStep(c) ==
    \/ HandshakeErr(c)
    \/ \E path \in PathsOf(c) : Callback(c, path)
    \/ \E kind \in FrameKinds, len \in 0 .. env.client : WriterNext(c, kind, len)
    \/ WriterEof(c)

Next ==
    \/ AcceptErr \/ SleepDone \/ CtrlC
    \/ \E c \in Conns :
          AcceptOk(c) \/ ClientStep(c) \/ HandlerStep(c) \/ ReaderStep(c) \/ WriterStep(c)

Spec == Init /\ [][Next]_vars
PairSpec == TwoInit /\ [][Next]_vars

\* Scheduling the runtime guarantees: a task that can run is polled, a blocking
\* call returns, the sleep elapses, the FIFO-fair tokio Mutex is granted, and
\* the cooperative budget makes a cancelled task yield.  Nothing is assumed of
\* the clients, the listener, or ctrl-c.
Fairness(S) ==
    /\ WF_vars(SleepDone)
    /\ \A c \in S :
        /\ WF_vars(Lookup(c)) /\ WF_vars(SpawnReader(c)) /\ WF_vars(SpawnWriter(c))
        /\ WF_vars(\E ok \in BOOLEAN : OpenDone(c, ok))
        /\ WF_vars(HandlerRecv(c))
        /\ WF_vars(\E ok \in BOOLEAN : HandlerSend(c, ok))
        /\ WF_vars(HandlerAbort(c)) /\ WF_vars(HandlerCancel(c))
        /\ SF_vars(ReaderLock(c))
        /\ WF_vars(\E r \in {ReadErr} \cup {ReadOk(n) : n \in 0 .. MaxChunk} : ReaderRead(c, r))
        /\ WF_vars(ReaderMatch(c)) /\ SF_vars(ReaderCancel(c))
        /\ WF_vars(WriterMatch(c)) /\ SF_vars(WriterLock(c))
        /\ WF_vars(\E ok \in BOOLEAN, k \in 0 .. env.client : WriterWrite(c, ok, k))
        /\ SF_vars(WriterCancel(c))

\* The connections of the fairly scheduled scenario: its one client's.
FairConns == {1}
FairSpec == FairInit /\ [][Next]_vars /\ Fairness(FairConns)

\* ------------------------------------------------------- lifecycle of §4.3
Bridging(c) == hpc[c] \in {"recv", "send"} /\ rpc[c] # "none" /\ wpc[c] # "none"
Draining(c) == hpc[c] = "drain"
Closed(c) == hpc[c] = "closed"
NoBytesForwarded(c) ==
    devRead[c] = <<>> /\ delivered[c] = <<>> /\ wsIn[c] = <<>> /\ devWritten[c] = <<>>
NoResources(c) ==
    serial_port[c] = "none" /\ strong[c] = 0 /\ rpc[c] = "none" /\ wpc[c] = "none"

\* ------------------------------------------------------------------ claims

\* C1: a request path whose endpoint name is not a key of the EndpointTable is
\* answered with 404, and that attempt never opens a device, spawns a role or
\* enters Bridging.
UnknownEndpoint(c) ==
    /\ reqPath[c] # NoneOpt
    /\ TrimStartMatches(Unwrap(reqPath[c]), "/") \notin DOMAIN EndpointTable
C1_UnknownEndpointRejected ==
    \A c \in Conns :
        UnknownEndpoint(c) =>
            /\ response[c] = NotFound
            /\ hpc[c] \in {"respond", "lookup", "panicked", "failed", "cancelled"}
            /\ NoResources(c)
            /\ NoBytesForwarded(c)
C1_Witness ==
    \E c \in Conns : UnknownEndpoint(c) /\ hpc[c] = "panicked" /\ response[c] = NotFound

\* Bytes read from the device and not yet delivered: the message being sent,
\* the queued messages, and the chunk the reader is about to push.
InFlight(c) ==
    (IF msg[c] = NoneOpt THEN <<>> ELSE Unwrap(msg[c]))
    \o Concat(queue[c])
    \o (IF rpc[c] = "match" /\ read_result[c].tag = "Ok" THEN buf[c] ELSE <<>>)

\* C2: what the send loop has delivered to the client is a prefix of what the
\* reader has read from the device, in read order: nothing is reordered,
\* duplicated or skipped, whatever the chunking and the interleaving; while
\* the forwarding loop runs, the rest of what was read is in flight in order.
C2_DeliveredPrefixOfRead ==
    \A c \in Conns :
        /\ IsPrefix(delivered[c], devRead[c])
        /\ hpc[c] \in {"spawn_writer", "recv", "send"} =>
              devRead[c] = delivered[c] \o InFlight(c)
C2_Witness ==
    \E c \in Conns :
        /\ Len(delivered[c]) >= 2
        /\ delivered[c] = devRead[c]
        /\ hpc[c] = "recv"

\* C3: the bytes on the device are the payloads of the binary and text frames
\* received, concatenated in receive order and unchanged: always a prefix, and
\* everything but the frame in hand while the writer runs.
WriterPending(c) ==
    CASE wpc[c] = "match" /\ wmsg[c].kind \in DataKinds -> wmsg[c].data
      [] wpc[c] \in {"lock", "write"} -> bytes[c]
      [] OTHER -> <<>>
C3_WrittenIsReceived ==
    \A c \in Conns :
        /\ IsPrefix(devWritten[c], wsIn[c])
        /\ wpc[c] \notin {"werr", "cancelled"} =>
              wsIn[c] = devWritten[c] \o WriterPending(c)
C3_Witness ==
    \E c \in Conns :
        /\ wpc[c] = "next"
        /\ Len(devWritten[c]) >= 2
        /\ devWritten[c] = wsIn[c]

\* C6: a zero-length read never ends the reader, pushes nothing and leaves the
\* connection where it is; the reader ends only on a read error, on a push to
\* a queue whose consumer is gone, or by cancellation.
ZeroRead(c) == rpc[c] = "match" /\ read_result[c] = ReadOk(0)
C6_ZeroReadRetries ==
    [][\A c \in Conns :
          /\ (ZeroRead(c) /\ rpc'[c] # rpc[c]) =>
                /\ rpc'[c] = "lock"
                /\ queue'[c] = queue[c]
                /\ hpc'[c] = hpc[c]
                /\ senders'[c] = senders[c]
                /\ serial_port'[c] = serial_port[c]
          /\ (RoleRunning(rpc[c]) /\ RoleStopped(rpc'[c])) =>
                \/ rpc[c] = "match" /\ read_result[c] = ReadErr /\ rpc'[c] = "err"
                \/ rpc[c] = "match" /\ read_result[c].cnt > 0 /\ HandlerOver(c)
                      /\ rpc'[c] = "rxgone"
                \/ rpc[c] = "lock" /\ RoleCancelled(c)' /\ rpc'[c] = "cancelled"]_vars
C6_Witness ==
    \E c \in Conns : ZeroRead(c) /\ Bridging(c) /\ devRead[c] # <<>>

\* C8: every device read and every device write runs under the connection's
\* lock, and the lock has one holder: a read and a write never overlap.
InRead(c) == rpc[c] = "read"
InWrite(c) == wpc[c] = "write"
C8_OneDeviceCallAtATime ==
    \A c \in Conns :
        /\ ~(InRead(c) /\ InWrite(c))
        /\ InRead(c) <=> lock[c] = "reader"
        /\ InWrite(c) <=> lock[c] = "writer"
C8_Witness ==
    \E c \in Conns : InRead(c) /\ wpc[c] = "lock" /\ bytes[c] # <<>>

\* Teardown as §4.3 describes it: both roles stopped and the handle released.
FullTeardown(c) ==
    RoleStopped(rpc[c]) /\ RoleStopped(wpc[c]) /\ serial_port[c] = "closed"

\* C4: once a device read error has ended the reader during Bridging, the
\* connection reaches its end (the handler leaves the forwarding loop and the
\* roles and the handle are torn down) without any WebSocket send failing:
\* the reader's end is the end of the queue's producer side, and it leads to
\* teardown.  (In the code the handler's own sender keeps the queue open.)
C4_ReadErrorTearsDown ==
    /\ [](\A c \in Conns : (rpc[c] = "err" /\ Bridging(c)) => senders[c] = 0)
    /\ \A c \in Conns :
          (rpc[c] = "err" /\ Bridging(c)) ~> (HandlerOver(c) /\ FullTeardown(c))

\* C5: once the writer has received the client's close frame during Bridging,
\* the connection reaches full teardown: both roles stopped, handle released.
\* A reader that a read error has ended is let off here (that case is C4's):
\* the Close arm only ends the writer, and nothing wakes the forwarding loop.
C5_CloseTearsDown ==
    \A c \in Conns :
        (wpc[c] = "closed" /\ Bridging(c)) ~> (FullTeardown(c) \/ rpc[c] = "err")

\* C7: a successful open is followed by Bridging with both roles spawned; an
\* open that did not succeed leaves no handle, no role and no forwarded byte,
\* and a failed handle_connection stays failed (no retry).
OpenSucceeded(c) == hpc[c] = "spawn_reader" /\ serial_port[c] = "open"
C7_OpenDecidesBridging ==
    /\ [](\A c \in Conns :
            /\ serial_port[c] = "none" => (NoResources(c) /\ NoBytesForwarded(c))
            /\ hpc[c] = "failed" => serial_port[c] = "none"
            /\ hpc[c] \in {"spawn_writer", "recv", "send"} => serial_port[c] = "open")
    /\ [][\A c \in Conns :
            /\ hpc[c] = "failed" => hpc'[c] = "failed"
            /\ (hpc[c] = "open" /\ hpc'[c] # "open") =>
                  \/ hpc'[c] = "spawn_reader" /\ serial_port'[c] = "open"
                  \/ hpc'[c] = "failed" /\ serial_port'[c] = "none"
                  \/ hpc'[c] = "cancelled" /\ shutdown']_vars
    /\ \A c \in Conns : OpenSucceeded(c) ~> Bridging(c)
C7_Witness ==
    \E c \in Conns : Bridging(c) /\ serial_port[c] = "open" /\ delivered[c] # <<>>

\* C9: a step of one connection, a failure included, changes nothing of any
\* other connection nor of the acceptor; only the acceptor starts a connection
\* and only ctrl-c, which ends the process, reaches more than one.
ConnState(c) ==
    <<hpc[c], reqPath[c], response[c], ws_endpoint[c], port_cfg[c], msg[c],
      serial_port[c], strong[c], lock[c], senders[c], queue[c],
      rpc[c], read_result[c], buf[c], wpc[c], wmsg[c], bytes[c],
      devRead[c], delivered[c], wsIn[c], devWritten[c]>>
C9_FaultIsolation ==
    [][\A c \in Conns :
          (ConnState(c)' # ConnState(c) /\ shutdown' = shutdown) =>
              /\ \A d \in Conns \ {c} : ConnState(d)' = ConnState(d)
              /\ hpc[c] # "idle" => UNCHANGED acceptorVars]_vars
C9_Witness ==
    \E c \in Conns, d \in Conns :
        /\ c # d
        /\ rpc[c] = "err" \/ wpc[c] = "werr" \/ hpc[c] = "panicked"
        /\ Bridging(d) /\ RoleRunning(rpc[d]) /\ RoleRunning(wpc[d])
        /\ delivered[d] # <<>>

\* C10: a failed accept puts the loop into its fixed backoff, no accept is
\* attempted during the backoff, only ctrl-c stops the loop, and the backoff
\* ends with the loop accepting again.
AcceptFailed == failures' = failures + 1
AcceptAttempt == AcceptFailed \/ \E c \in Conns : hpc[c] = "idle" /\ hpc'[c] # "idle"
C10_AcceptBackoff ==
    /\ [][/\ AcceptFailed => (apc' = "sleep" /\ timer' = BackoffMs)
          /\ apc = "sleep" => ~AcceptAttempt
          /\ AcceptAttempt => (apc = "accept" /\ timer = 0)]_vars
    /\ [](apc = "stopped" => shutdown)
    /\ [](~shutdown /\ apc = "accept" /\ (\E c \in clients : hpc[c] = "idle")
            => ENABLED (\E c \in Conns : AcceptOk(c)))
    /\ (apc = "sleep") ~> (apc = "accept" \/ shutdown)
C10_Witness ==
    failures >= 2 /\ apc = "accept" /\ ~shutdown /\ \E c \in Conns : hpc[c] = "handshake"

\* C11: after ctrl-c no connection is accepted, and ctrl-c does not end a
\* connection that is in Bridging: such a connection leaves Bridging only into
\* Draining, and its roles end only on their own conditions, never cancelled by
\* the trigger.  (In the code main returns on ctrl-c and the runtime is dropped
\* with every spawned task.)
C11_ShutdownSparesBridging ==
    /\ [](shutdown => apc = "stopped")
    /\ [][shutdown => ~AcceptAttempt]_vars
    /\ [][\A c \in Conns :
            (Bridging(c) /\ shutdown' # shutdown) =>
                /\ hpc'[c] = hpc[c]
                /\ rpc'[c] # "cancelled"
                /\ wpc'[c] # "cancelled"
                /\ serial_port'[c] = serial_port[c]]_vars

\* C12: a ping or pong taken by the writer is ignored: the writer goes back to
\* its receive, and nothing else of the connection changes (no byte on the
\* device, lock not taken, queue untouched, handler and reader where they were,
\* handle and its references kept).
ControlInHand(c) == wpc[c] = "match" /\ wmsg[c].kind \in {"Ping", "Pong"}
C12_ControlFrameIgnored ==
    [][\A c \in Conns :
          (ControlInHand(c) /\ wpc'[c] # wpc[c]) =>
              /\ wpc'[c] = "next"
              /\ devWritten'[c] = devWritten[c]
              /\ bytes'[c] = bytes[c]
              /\ lock'[c] = lock[c]
              /\ queue'[c] = queue[c]
              /\ senders'[c] = senders[c]
              /\ hpc'[c] = hpc[c]
              /\ rpc'[c] = rpc[c]
              /\ strong'[c] = strong[c]
              /\ serial_port'[c] = serial_port[c]]_vars
C12_Witness ==
    \E c \in Conns :
        /\ ControlInHand(c) /\ Bridging(c)
        /\ devWritten[c] # <<>> /\ queue[c] # <<>> /\ lock[c] = "reader"

\* C13: when a failed WebSocket send has ended the send loop, the connection is
\* torn down: the handler returns, both roles are stopped wherever they were
\* (inside a device call, waiting for the lock or for the client) and the
\* handle is released; once the handler and both roles are over no handle is
\* left open.
C13_SendFailureTearsDown ==
    /\ [](\A c \in Conns :
            (HandlerOver(c) /\ RoleStopped(rpc[c]) /\ RoleStopped(wpc[c]))
                => serial_port[c] = "closed")
    /\ \A c \in FairConns : Draining(c) ~> (HandlerOver(c) /\ FullTeardown(c))
C13_Witness ==
    \E c \in Conns :
        /\ Closed(c) /\ ~shutdown
        /\ rpc[c] = "cancelled" /\ wpc[c] = "cancelled"
        /\ serial_port[c] = "closed" /\ strong[c] = 0

\* C14: the lock is taken for one device call and given back when that call
\* returns: it is free while the reader pushes, while the writer waits for a
\* frame or matches one, and a role never holds it during the other role's
\* call.  Hence a role waiting for the lock gets it (or is cancelled there),
\* however often the other role takes the lock again.
LockWaitOver(pc) == pc \in {"read", "write", "cancelled"}
C14_LockPerCall ==
    /\ [](\A c \in Conns :
            /\ rpc[c] \in {"match", "lock"} \/ RoleStopped(rpc[c]) => lock[c] # "reader"
            /\ wpc[c] \in {"next", "match", "lock"} \/ RoleStopped(wpc[c]) => lock[c] # "writer"
            /\ InRead(c) => lock[c] = "reader"
            /\ InWrite(c) => lock[c] = "writer")
    /\ [][\A c \in Conns :
            /\ (InRead(c) /\ rpc'[c] # rpc[c]) => lock'[c] = "free"
            /\ (InWrite(c) /\ wpc'[c] # wpc[c]) => lock'[c] = "free"
            /\ (lock[c] = "free" /\ lock'[c] # "free") =>
                  \/ rpc[c] = "lock" /\ InRead(c)' /\ lock'[c] = "reader"
                  \/ wpc[c] = "lock" /\ InWrite(c)' /\ lock'[c] = "writer"]_vars
    /\ \A c \in FairConns :
          /\ (wpc[c] = "lock") ~> LockWaitOver(wpc[c])
          /\ (rpc[c] = "lock") ~> LockWaitOver(rpc[c])
C14_Witness ==
    \E c \in Conns :
        /\ InWrite(c) /\ bytes[c] # <<>>
        /\ rpc[c] = "lock" /\ devRead[c] # <<>>
        /\ Bridging(c)

\* C15: a failed device write ends the writer for good, so that no later frame
\* reaches the device, and the connection then goes through teardown to Closed
\* with the reader stopped and the handle released.  A reader that a read error
\* has ended is let off here (that case is C4's).  (In the code the failed
\* write only breaks the writer's loop: nothing wakes the forwarding loop.)
WriteFailed(c) == wpc[c] = "werr"
C15_WriteErrorTearsDown ==
    /\ [][\A c \in Conns :
            WriteFailed(c) => (WriteFailed(c)' /\ devWritten'[c] = devWritten[c])]_vars
    /\ \A c \in Conns :
          (WriteFailed(c) /\ Bridging(c))
              ~> ((Closed(c) /\ FullTeardown(c)) \/ rpc[c] = "err" \/ shutdown)

\* The lifecycle states of §4.3 as positions of handle_connection; an attempt
\* that failed, panicked or was dropped with the runtime is over.
Handshaking(c) == hpc[c] \in {"handshake", "respond", "lookup"}
PortOpening(c) == hpc[c] \in {"open", "spawn_reader", "spawn_writer"}
Phase(c) ==
    CASE hpc[c] = "idle" -> 0
      [] Handshaking(c) -> 1
      [] PortOpening(c) -> 2
      [] hpc[c] \in {"recv", "send"} -> 3
      [] Draining(c) -> 4
      [] OTHER -> 5

\* C16: a connection moves through Handshaking, PortOpening, Bridging, Draining
\* and Closed one state at a time and never back; it fails only out of
\* Handshaking or PortOpening; the endpoint has been looked up and found before
\* the open is attempted; no role exists before the open has succeeded.
C16_LifecycleForward ==
    /\ [](\A c \in Conns :
            /\ (PortOpening(c) \/ serial_port[c] # "none") =>
                  /\ reqPath[c] # NoneOpt
                  /\ port_cfg[c] = EndpointGet(TrimStartMatches(Unwrap(reqPath[c]), "/"))
                  /\ port_cfg[c] # NoneOpt
            /\ (rpc[c] # "none" \/ wpc[c] # "none") => serial_port[c] # "none"
            /\ hpc[c] = "open" => (NoResources(c) /\ NoBytesForwarded(c)))
    /\ [][\A c \in Conns :
            /\ Phase(c)' >= Phase(c)
            /\ Phase(c)' \in {Phase(c), Phase(c) + 1, 5}
            /\ hpc'[c] \in {"failed", "panicked"} /\ hpc'[c] # hpc[c] =>
                  (Handshaking(c) \/ PortOpening(c))
            /\ (hpc'[c] = "closed" /\ hpc[c] # "closed") => Draining(c)
            /\ (rpc[c] = "none" /\ rpc'[c] # "none") =>
                  (PortOpening(c) /\ serial_port[c] = "open")
            /\ (wpc[c] = "none" /\ wpc'[c] # "none") =>
                  (PortOpening(c) /\ serial_port[c] = "open")]_vars
C16_Witness ==
    \E c \in Conns :
        /\ Closed(c) /\ ~shutdown
        /\ delivered[c] # <<>> /\ devWritten[c] # <<>>
        /\ port_cfg[c] # NoneOpt

\* C17: once handle_connection has aborted both roles and returned, nothing is
\* done for the connection any more: no device read or write returns or is
\* started, nothing is pushed onto the queue and nothing is sent to the client.
\* (In the code abort() acts at a role's next yield: a device call that is in
\* progress on another worker completes, and a lock().await that resolves at
\* once lets the reader start one more read.)
DeviceCallStarts(c) ==
    \/ ~InRead(c) /\ InRead(c)'
    \/ ~InWrite(c) /\ InWrite(c)'
C17_ClosedIsTerminal ==
    [][\A c \in Conns :
          Closed(c) =>
              /\ devRead'[c] = devRead[c]
              /\ devWritten'[c] = devWritten[c]
              /\ ~DeviceCallStarts(c)
              /\ queue'[c] = queue[c]
              /\ delivered'[c] = delivered[c]]_vars

\* Where each blocking device call runs: the open is a closure handed to
\* spawn_blocking; ser.read and ser.write_all are called directly in the async
\* blocks of the two tokio::spawn tasks, on the worker that polls the task.
OpenRunsOn == "blocking_pool"
ReadRunsOn == "scheduler_worker"
WriteRunsOn == "scheduler_worker"

\* The blocking device calls of connection c that have not returned yet.
BlockingCalls(c) ==
    (IF hpc[c] = "open" THEN {[call |-> "open", on |-> OpenRunsOn]} ELSE {})
    \cup (IF InRead(c) THEN {[call |-> "read", on |-> ReadRunsOn]} ELSE {})
    \cup (IF InWrite(c) THEN {[call |-> "write", on |-> WriteRunsOn]} ELSE {})

\* C18: every blocking device call in progress (open, read, write) runs on the
\* blocking pool: no scheduler worker is ever occupied by one.  (In the code
\* only the open is handed to spawn_blocking.)
C18_BlockingOffScheduler ==
    \A c \in Conns : \A b \in BlockingCalls(c) : b.on = "blocking_pool"

\* The receiver of the ordering queue has been dropped: the handler that made
\* the channel is over.
ConsumerGone(c) == rpc[c] # "none" /\ HandlerOver(c)
PushInHand(c) == rpc[c] = "match" /\ read_result[c].tag = "Ok" /\ read_result[c].cnt > 0

\* C19: a push onto the queue after its consumer has gone fails and ends the
\* reader: nothing is queued, the reader's sender and handle reference are
\* dropped, and the ended reader reads and pushes nothing more.
C19_PushToGoneConsumerEnds ==
    [][\A c \in Conns :
          /\ (PushInHand(c) /\ ConsumerGone(c) /\ rpc'[c] # rpc[c]) =>
                /\ rpc'[c] = "rxgone"
                /\ queue'[c] = queue[c]
                /\ senders'[c] = senders[c] - 1
                /\ strong'[c] = strong[c] - 1
          /\ rpc[c] = "rxgone" =>
                /\ rpc'[c] = "rxgone"
                /\ devRead'[c] = devRead[c]
                /\ queue'[c] = queue[c]
                /\ lock'[c] # "reader"
          /\ (rpc'[c] = "rxgone" /\ rpc[c] # "rxgone") =>
                (PushInHand(c) /\ ConsumerGone(c))]_vars
C19_Witness ==
    \E c \in Conns :
        /\ rpc[c] = "rxgone" /\ Closed(c)
        /\ Len(devRead[c]) > Len(delivered[c])

\* C20: while the handler is in its forwarding loop the queue has a live
\* sender (the handler's own, whatever became of the reader's clone), so the
\* receive never yields None, and the loop is left for Draining only by the
\* failed send of a dequeued payload.
InForwardingLoop(c) == hpc[c] \in {"recv", "send"}
C20_SenderKeptAlive ==
    /\ [](\A c \in Conns :
            /\ InForwardingLoop(c) => senders[c] >= 1
            /\ (InForwardingLoop(c) /\ RoleStopped(rpc[c])) => senders[c] = 1
            /\ (InForwardingLoop(c) /\ RoleRunning(rpc[c])) => senders[c] = 2)
    /\ [][\A c \in Conns :
            (Draining(c)' /\ ~Draining(c)) =>
                /\ hpc[c] = "send"
                /\ msg[c] # NoneOpt
                /\ delivered'[c] = delivered[c]
                /\ queue'[c] = queue[c]]_vars
C20_Witness ==
    \E c \in Conns :
        /\ hpc[c] = "recv" /\ queue[c] = <<>>
        /\ rpc[c] = "err" /\ senders[c] = 1
        /\ delivered[c] # <<>>

====
